---- MODULE Spec2Model ----
(***************************************************************************)
(* Model of the ConstraintTemplate -> CRD synthesis and constraint         *)
(* validation helpers (constraint/pkg/client/crd_helpers.go) and of the    *)
(* generated deep-copy functions of the v1alpha1 template types.           *)
(*                                                                         *)
(* Go objects reached through pointers or maps live in `heap`, a sequence  *)
(* of objects; the address of an object is its index and NIL (0) is the    *)
(* nil pointer / nil map.  Strings that the code transforms (kinds, names, *)
(* groups) are sequences of one-character strings.                         *)
(***************************************************************************)
EXTENDS Naturals, Sequences, FiniteSets

VARIABLES
    heap,      \* the Go heap: sequence of objects, addresses are indices
    templ,     \* address of the ConstraintTemplate under consideration
    cpy,       \* address of DeepCopy(templ), NIL before the copy is made
    op,        \* the operation performed by the last step
    fresh,     \* number of schema objects allocated by mutating callers
    target,    \* the MatchSchemaProvider handed to createSchema
    terr,      \* error returned by the last validateTargets call
    schema,    \* result of the last createSchema call
    crd,       \* result of the last createCRD call
    runs,      \* number of createSchema calls made so far
    verr,      \* error returned by the last validateCRD call
    cr,        \* address of the constraint instance given to validateCR
    crerr,     \* error returned by the last validateCR call
    calls      \* the call each concurrent caller is making: its position,
               \* its local variables and, once it returned, its result

vars == <<heap, templ, cpy, op, fresh, target, terr, schema, crd, runs, verr, cr, crerr, calls>>

(***************************************************************************)
(* Bounds of the model.                                                    *)
(***************************************************************************)
MaxKindLen == 2
MaxNameLen == 2
MaxFresh == 1
MaxRuns == 2

(***************************************************************************)
(* Strings as sequences of characters.                                     *)
(***************************************************************************)
NIL == 0

SeqsUpTo(S, n) == UNION {[1..k -> S] : k \in 0..n}

UpperCase == <<"A","B","C","D","E","F","G","H","I","J","K","L","M",
               "N","O","P","Q","R","S","T","U","V","W","X","Y","Z">>
LowerCase == <<"a","b","c","d","e","f","g","h","i","j","k","l","m",
               "n","o","p","q","r","s","t","u","v","w","x","y","z">>
Digits == {"0","1","2","3","4","5","6","7","8","9"}

Range(s) == {s[i] : i \in DOMAIN s}

\* unicode.ToLower on one (ASCII) character
LowerChar(c) ==
    IF \E i \in DOMAIN UpperCase : UpperCase[i] = c
    THEN LowerCase[CHOOSE i \in DOMAIN UpperCase : UpperCase[i] = c]
    ELSE c

\* strings.ToLower
ToLower(s) == [i \in DOMAIN s |-> LowerChar(s[i])]

KindAlphabet == {"K", "k"}
Kinds == SeqsUpTo(KindAlphabet, MaxKindLen)

\* the API group of all constraint kinds (package constant constraintGroup)
constraintGroup ==
    <<"c","o","n","s","t","r","a","i","n","t","s",".",
      "g","a","t","e","k","e","e","p","e","r",".","s","h">>

\* v1alpha1.SchemeGroupVersion.Version and v1beta1.SchemeGroupVersion.Version
v1alpha1Version == <<"v","1","a","l","p","h","a","1">>
v1beta1Version == <<"v","1","b","e","t","a","1">>

supportedVersions == [v \in {v1alpha1Version, v1beta1Version} |-> TRUE]

(***************************************************************************)
(* Errors are records with a msg field; nil is the nil error.              *)
(***************************************************************************)
nil == [msg |-> "<nil>"]
NotCalled == [msg |-> "<not called>"]

(***************************************************************************)
(* Concurrent callers.  A call in progress holds the operation, the        *)
(* position in its code, up to three local pointers, a local value and,    *)
(* when it has returned, the result.                                       *)
(***************************************************************************)
Callers == {"c1", "c2"}

IdleCall ==
    [op |-> "idle", pc |-> "idle", p1 |-> NIL, p2 |-> NIL, p3 |-> NIL, own |-> {},
     val |-> [absent |-> TRUE], res |-> [ptr |-> NIL, err |-> NotCalled]]

(***************************************************************************)
(* Heap primitives.                                                        *)
(***************************************************************************)
Alloc(h, obj) == [heap |-> Append(h, obj), ptr |-> Len(h) + 1]

Store(h, a, obj) == [h EXCEPT ![a] = obj]

(***************************************************************************)
(* JSON values and schema documents.                                       *)
(*                                                                         *)
(* A v1beta1 (external) JSONSchemaProps carries its Default as raw JSON    *)
(* text; the internal JSONSchemaProps carries it as a decoded value.       *)
(***************************************************************************)
NoValue == [json |-> "absent"]
JInt == [json |-> "integer"]
JStr == [json |-> "string"]
JFunc == [json |-> "func"]      \* a Go value encoding/json cannot marshal

NoProps == [n \in {} |-> NoValue]

\* author-supplied parameter schemas (v1beta1 form)
ParamSchemas ==
    { [Type |-> "string",  Default |-> "",  Pattern |-> "",  Properties |-> NoProps],
      [Type |-> "integer", Default |-> "1", Pattern |-> "",  Properties |-> NoProps],
      [Type |-> "string",  Default |-> "{", Pattern |-> "",  Properties |-> NoProps],
      [Type |-> "string",  Default |-> "",  Pattern |-> "(", Properties |-> NoProps] }

\* match schemas a target handler can return (internal form)
MatchSchemas ==
    { [Type |-> "object", Default |-> NoValue, Pattern |-> "", Properties |-> NoProps],
      [Type |-> "object", Default |-> JFunc,   Pattern |-> "", Properties |-> NoProps] }

TargetNames == {"t1", "t2"}
Regos == {"r1", "r2"}

(***************************************************************************)
(* v1alpha1 template types: generated deep-copy functions.                 *)
(*                                                                         *)
(* A ConstraintTemplate object is                                          *)
(*   [Spec |-> [CRD |-> [Spec |-> [Names |-> [Kind |-> k],                 *)
(*                                 Validation |-> address or NIL]],        *)
(*              Targets |-> address of the map object or NIL]]             *)
(* a Validation object is [OpenAPIV3Schema |-> address or NIL], a map      *)
(* object is a function from target names to Target values, and a schema   *)
(* object is a JSONSchemaProps value.  Each XDeepCopyInto(h, in) returns   *)
(* the heap after the copy and the value written to *out.                  *)
(***************************************************************************)

\* (*in).DeepCopy() of the apiextensions v1beta1 JSONSchemaProps: a new
\* object holding an equal document
JSONSchemaPropsDeepCopy(h, in) ==
    IF in = NIL THEN [heap |-> h, ptr |-> NIL] ELSE Alloc(h, h[in])

ValidationDeepCopyInto(h, in) ==
    IF in.OpenAPIV3Schema # NIL
    THEN LET c == JSONSchemaPropsDeepCopy(h, in.OpenAPIV3Schema)
         IN  [heap |-> c.heap, out |-> [in EXCEPT !.OpenAPIV3Schema = c.ptr]]
    ELSE [heap |-> h, out |-> in]

CRDSpecDeepCopyInto(h, in) ==
    IF in.Validation # NIL
    THEN LET v == ValidationDeepCopyInto(h, h[in.Validation])
             a == Alloc(v.heap, v.out)
         IN  [heap |-> a.heap, out |-> [in EXCEPT !.Names = in.Names, !.Validation = a.ptr]]
    ELSE [heap |-> h, out |-> [in EXCEPT !.Names = in.Names]]

CRDDeepCopyInto(h, in) ==
    LET s == CRDSpecDeepCopyInto(h, in.Spec)
    IN  [heap |-> s.heap, out |-> [in EXCEPT !.Spec = s.out]]

\* a plausible slip: the Targets map is assigned, not re-allocated
ConstraintTemplateSpecDeepCopyIntoShallow(h, in) ==
    LET c == CRDDeepCopyInto(h, in.CRD)
    IN  [heap |-> c.heap, out |-> [in EXCEPT !.CRD = c.out]]

ConstraintTemplateSpecDeepCopyInto(h, in) ==
    LET c == CRDDeepCopyInto(h, in.CRD)
    IN  IF in.Targets # NIL
        THEN LET m == Alloc(c.heap, [key \in DOMAIN c.heap[in.Targets] |-> c.heap[in.Targets][key]])
             IN  [heap |-> m.heap, out |-> [in EXCEPT !.CRD = c.out, !.Targets = m.ptr]]
        ELSE [heap |-> c.heap, out |-> [in EXCEPT !.CRD = c.out]]

ConstraintTemplateDeepCopyInto(h, in) ==
    LET s == ConstraintTemplateSpecDeepCopyInto(h, in.Spec)
    IN  [heap |-> s.heap, out |-> [in EXCEPT !.Spec = s.out]]

ConstraintTemplateDeepCopy(h, in) ==
    IF in = NIL
    THEN [heap |-> h, ptr |-> NIL]
    ELSE LET c == ConstraintTemplateDeepCopyInto(h, h[in])
         IN  Alloc(c.heap, c.out)

(***************************************************************************)
(* Building a template on an empty heap, and reading one back as a value   *)
(* (what reflect.DeepEqual compares: nil and empty maps differ).           *)
(***************************************************************************)
NoTargets == [absent |-> TRUE]
NoValidation == [absent |-> TRUE]
NoSchema == [absent |-> TRUE]

\* tg: NoTargets or a map value; va: NoValidation, or [OpenAPIV3Schema |-> NoSchema
\* or a schema document]
NewTemplate(kind, tg, va) ==
    LET h1 == IF tg = NoTargets THEN [heap |-> <<>>, ptr |-> NIL] ELSE Alloc(<<>>, tg)
        h2 == IF va = NoValidation \/ va.OpenAPIV3Schema = NoSchema
              THEN [heap |-> h1.heap, ptr |-> NIL]
              ELSE Alloc(h1.heap, va.OpenAPIV3Schema)
        h3 == IF va = NoValidation
              THEN [heap |-> h2.heap, ptr |-> NIL]
              ELSE Alloc(h2.heap, [OpenAPIV3Schema |-> h2.ptr])
    IN  Alloc(h3.heap,
              [Spec |-> [CRD |-> [Spec |-> [Names |-> [Kind |-> kind],
                                            Validation |-> h3.ptr]],
                         Targets |-> h1.ptr]])

TemplateValue(h, t) ==
    IF t = NIL THEN [absent |-> TRUE]
    ELSE LET s == h[t].Spec
             v == s.CRD.Spec.Validation
         IN  [Kind |-> s.CRD.Spec.Names.Kind,
              Targets |-> IF s.Targets = NIL THEN NoTargets ELSE h[s.Targets],
              Validation |->
                  IF v = NIL THEN NoValidation
                  ELSE [OpenAPIV3Schema |->
                          IF h[v].OpenAPIV3Schema = NIL THEN NoSchema
                          ELSE h[h[v].OpenAPIV3Schema]]]

\* the addresses a template reaches: its own, its map, its wrapper, its schema
TemplateAddrs(h, t) ==
    IF t = NIL THEN {}
    ELSE LET s == h[t].Spec
             v == s.CRD.Spec.Validation
         IN  ({t, s.Targets, v} \cup (IF v = NIL THEN {} ELSE {h[v].OpenAPIV3Schema}))
             \ {NIL}

TargetMaps(names) ==
    {NoTargets} \cup UNION {[ks -> {[Rego |-> "r1"]}] : ks \in SUBSET names}

Validations ==
    {NoValidation, [OpenAPIV3Schema |-> NoSchema]}
    \cup {[OpenAPIV3Schema |-> p] : p \in ParamSchemas}


(***************************************************************************)
(* Specification SpecCopy: a template is deep-copied, then callers holding *)
(* the original or the copy mutate what they can reach from it.            *)
(***************************************************************************)
pipelineIdle ==
    /\ target = CHOOSE m \in MatchSchemas : m.Default = NoValue
    /\ terr = NotCalled
    /\ schema = [ptr |-> NIL, err |-> NotCalled]
    /\ crd = [built |-> NIL, ptr |-> NIL, err |-> NotCalled]
    /\ runs = 0
    /\ verr = NotCalled
    /\ cr = NIL
    /\ crerr = NotCalled
    /\ calls = [c \in Callers |-> IdleCall]

pipelineVars == <<target, terr, schema, crd, runs, verr, cr, crerr, calls>>

CopyKinds == {k \in Kinds : Len(k) = 1}

\* the documents a mutating caller writes
WrittenSchemas == {p \in ParamSchemas : p.Pattern = "" /\ p.Default # "{"}

InitCopy ==
    /\ \/ /\ heap = <<>>
          /\ templ = NIL
       \/ \E k \in CopyKinds, tg \in TargetMaps(TargetNames), va \in Validations :
             LET t == NewTemplate(k, tg, va)
             IN  heap = t.heap /\ templ = t.ptr
    /\ cpy = NIL
    /\ op = "init"
    /\ fresh = 0
    /\ pipelineIdle

\* c := t.DeepCopy()
DeepCopy ==
    /\ op = "init"
    /\ LET c == ConstraintTemplateDeepCopy(heap, templ)
       IN  heap' = c.heap /\ cpy' = c.ptr
    /\ op' = "DeepCopy"
    /\ UNCHANGED <<templ, fresh, pipelineVars>>

Holders == {templ, cpy} \ {NIL}
Via(p) == IF p = cpy THEN "MutCopy" ELSE "MutOrig"
TargetsOf(p) == heap[p].Spec.Targets
ValidationOf(p) == heap[p].Spec.CRD.Spec.Validation

\* p.Spec.Targets[k] = Target{Rego: r}
TargetsPut ==
    /\ cpy # NIL
    /\ \E p \in Holders, k \in TargetNames, r \in Regos :
          /\ TargetsOf(p) # NIL
          /\ LET m == heap[TargetsOf(p)]
             IN  heap' = Store(heap, TargetsOf(p),
                               [x \in DOMAIN m \cup {k} |-> IF x = k THEN [Rego |-> r] ELSE m[x]])
          /\ op' = Via(p)
    /\ UNCHANGED <<templ, cpy, fresh, pipelineVars>>

\* delete(p.Spec.Targets, k)
TargetsDelete ==
    /\ cpy # NIL
    /\ \E p \in Holders, k \in TargetNames :
          /\ TargetsOf(p) # NIL
          /\ k \in DOMAIN heap[TargetsOf(p)]
          /\ LET m == heap[TargetsOf(p)]
             IN  heap' = Store(heap, TargetsOf(p), [x \in DOMAIN m \ {k} |-> m[x]])
          /\ op' = Via(p)
    /\ UNCHANGED <<templ, cpy, fresh, pipelineVars>>

\* *p.Spec.CRD.Spec.Validation.OpenAPIV3Schema = doc
SchemaWrite ==
    /\ cpy # NIL
    /\ \E p \in Holders, doc \in WrittenSchemas :
          /\ ValidationOf(p) # NIL
          /\ heap[ValidationOf(p)].OpenAPIV3Schema # NIL
          /\ heap' = Store(heap, heap[ValidationOf(p)].OpenAPIV3Schema, doc)
          /\ op' = Via(p)
    /\ UNCHANGED <<templ, cpy, fresh, pipelineVars>>

\* p.Spec.CRD.Spec.Validation.OpenAPIV3Schema = nil
SchemaClear ==
    /\ cpy # NIL
    /\ \E p \in Holders :
          /\ ValidationOf(p) # NIL
          /\ heap[ValidationOf(p)].OpenAPIV3Schema # NIL
          /\ heap' = Store(heap, ValidationOf(p), [OpenAPIV3Schema |-> NIL])
          /\ op' = Via(p)
    /\ UNCHANGED <<templ, cpy, fresh, pipelineVars>>

\* p.Spec.CRD.Spec.Validation.OpenAPIV3Schema = &doc
SchemaReplace ==
    /\ cpy # NIL
    /\ fresh < MaxFresh
    /\ \E p \in Holders, doc \in WrittenSchemas :
          /\ ValidationOf(p) # NIL
          /\ LET a == Alloc(heap, doc)
             IN  heap' = Store(a.heap, ValidationOf(p), [OpenAPIV3Schema |-> a.ptr])
          /\ op' = Via(p)
    /\ fresh' = fresh + 1
    /\ UNCHANGED <<templ, cpy, pipelineVars>>

NextCopy ==
    \/ DeepCopy
    \/ TargetsPut
    \/ TargetsDelete
    \/ SchemaWrite
    \/ SchemaClear
    \/ SchemaReplace

SpecCopy == InitCopy /\ [][NextCopy]_vars

(***************************************************************************)
(* C3: DeepCopy(T) is structurally equal to T (an absent Targets map,      *)
(* Validation or inner schema copying to absent), shares no object with    *)
(* T, and no mutation made through the copy changes T, nor one made        *)
(* through T the copy.                                                     *)
(***************************************************************************)
C3_DeepCopyIndependent ==
    [][ /\ op' = "DeepCopy" =>
             /\ TemplateValue(heap', cpy') = TemplateValue(heap, templ)
             /\ TemplateValue(heap', templ') = TemplateValue(heap, templ)
             /\ TemplateAddrs(heap', cpy') \cap TemplateAddrs(heap', templ') = {}
             /\ (templ = NIL) = (cpy' = NIL)
        /\ op' = "MutCopy" => TemplateValue(heap', templ') = TemplateValue(heap, templ)
        /\ op' = "MutOrig" => TemplateValue(heap', cpy') = TemplateValue(heap, cpy)
      ]_vars

\* a copy of a template with targets and a parameter schema was mutated and
\* now differs from the original
C3_Witness ==
    /\ op = "MutCopy"
    /\ cpy # NIL
    /\ TemplateValue(heap, templ).Targets # NoTargets
    /\ TemplateValue(heap, templ).Validation # NoValidation
    /\ TemplateValue(heap, templ).Validation.OpenAPIV3Schema # NoSchema
    /\ TemplateValue(heap, cpy).Targets # TemplateValue(heap, templ).Targets
    /\ TemplateValue(heap, cpy).Validation # TemplateValue(heap, templ).Validation


(***************************************************************************)
(* The host scheme: conversion between the v1beta1 and the internal form   *)
(* of a schema document, and the v1beta1 defaulting of a definition.       *)
(***************************************************************************)

\* json.Unmarshal of a raw Default; absent text decodes to no value
Unmarshal(raw) ==
    IF raw = "" THEN [ok |-> TRUE, val |-> NoValue]
    ELSE IF raw = "1" THEN [ok |-> TRUE, val |-> JInt]
    ELSE IF raw = "\"s\"" THEN [ok |-> TRUE, val |-> JStr]
    ELSE [ok |-> FALSE, val |-> NoValue]

\* json.Marshal of a decoded Default
Marshal(val) ==
    IF val = NoValue THEN [ok |-> TRUE, raw |-> ""]
    ELSE IF val = JInt THEN [ok |-> TRUE, raw |-> "1"]
    ELSE IF val = JStr THEN [ok |-> TRUE, raw |-> "\"s\""]
    ELSE [ok |-> FALSE, raw |-> ""]

RECURSIVE ConvertToInternal(_)
\* scheme.Convert(v1beta1 JSONSchemaProps, internal JSONSchemaProps)
ConvertToInternal(ext) ==
    LET d == Unmarshal(ext.Default)
        ps == [n \in DOMAIN ext.Properties |-> ConvertToInternal(ext.Properties[n])]
    IN  [ok |-> d.ok /\ \A n \in DOMAIN ps : ps[n].ok,
         val |-> [Type |-> ext.Type, Default |-> d.val, Pattern |-> ext.Pattern,
                  Properties |-> [n \in DOMAIN ps |-> ps[n].val]]]

RECURSIVE ConvertToExternal(_)
\* scheme.Convert(internal JSONSchemaProps, v1beta1 JSONSchemaProps)
ConvertToExternal(int) ==
    LET d == Marshal(int.Default)
        ps == [n \in DOMAIN int.Properties |-> ConvertToExternal(int.Properties[n])]
    IN  [ok |-> d.ok /\ \A n \in DOMAIN ps : ps[n].ok,
         val |-> [Type |-> int.Type, Default |-> d.raw, Pattern |-> int.Pattern,
                  Properties |-> [n \in DOMAIN ps |-> ps[n].val]]]

ConversionError == [msg |-> "converting (v1beta1.JSONSchemaProps) to (apiextensions.JSONSchemaProps)"]
RoundTripError == [msg |-> "converting (apiextensions.CustomResourceDefinition) to (v1beta1.CustomResourceDefinition)"]
RoundTripBackError == [msg |-> "converting (v1beta1.CustomResourceDefinition) to (apiextensions.CustomResourceDefinition)"]

\* zero value of the internal JSONSchemaProps
ZeroSchema == [Type |-> "", Default |-> NoValue, Pattern |-> "", Properties |-> NoProps]

Absent == [absent |-> TRUE]

\* scheme.Default on a v1beta1 CustomResourceDefinition: fills what is unset
SetDefaults(spec) ==
    [spec EXCEPT
       !.Scope = IF spec.Scope = "" THEN "Namespaced" ELSE spec.Scope,
       !.Names = [spec.Names EXCEPT
                    !.Singular = IF spec.Names.Singular = <<>>
                                 THEN ToLower(spec.Names.Kind) ELSE spec.Names.Singular,
                    !.ListKind = IF spec.Names.ListKind = <<>> /\ spec.Names.Kind # <<>>
                                 THEN spec.Names.Kind \o <<"L","i","s","t">>
                                 ELSE spec.Names.ListKind],
       !.Version = IF spec.Version = <<>> /\ spec.Versions # <<>>
                   THEN spec.Versions[1].Name ELSE spec.Version,
       !.Conversion = IF spec.Conversion = Absent
                      THEN [Strategy |-> "None"] ELSE spec.Conversion,
       !.PreserveUnknownFields = IF spec.PreserveUnknownFields = Absent
                                 THEN [value |-> TRUE] ELSE spec.PreserveUnknownFields]

(***************************************************************************)
(* crd_helpers.go                                                          *)
(***************************************************************************)
TargetCount(h, t) ==
    IF h[t].Spec.Targets = NIL THEN 0 ELSE Cardinality(DOMAIN h[h[t].Spec.Targets])

MultiTargetError == [msg |-> "Multi-target templates are not currently supported"]
TargetsNotSpecifiedError == [msg |-> "Field \"targets\" not specified in ConstraintTemplate spec"]
NoTargetsError == [msg |-> "No targets specified. ConstraintTemplate must specify one target"]

\* an off-by-one in the multi-target test
validateTargetsOffByOne(h, t) ==
    IF TargetCount(h, t) > 2 THEN MultiTargetError
    ELSE IF h[t].Spec.Targets = NIL THEN TargetsNotSpecifiedError
    ELSE IF TargetCount(h, t) = 0 THEN NoTargetsError
    ELSE nil

validateTargets(h, t) ==
    IF TargetCount(h, t) > 1 THEN MultiTargetError
    ELSE IF h[t].Spec.Targets = NIL THEN TargetsNotSpecifiedError
    ELSE IF TargetCount(h, t) = 0 THEN NoTargetsError
    ELSE nil

\* a parameters property written whether or not a schema was declared
SchemaPropsAlwaysParameters(match, withParams, params) ==
    [n \in {"match", "enforcementAction", "parameters"} |->
        IF n = "match" THEN match
        ELSE IF n = "enforcementAction" THEN [ZeroSchema EXCEPT !.Type = "string"]
        ELSE params]

\* the property map of the composed schema
SchemaProps(match, withParams, params) ==
    [n \in {"match", "enforcementAction"} \cup (IF withParams THEN {"parameters"} ELSE {}) |->
        IF n = "match" THEN match
        ELSE IF n = "enforcementAction" THEN [ZeroSchema EXCEPT !.Type = "string"]
        ELSE params]

ComposedSchema(props) ==
    [ZeroSchema EXCEPT !.Properties =
        [n \in {"spec"} |-> [ZeroSchema EXCEPT !.Properties = props]]]

HasParameterSchema(h, t) ==
    /\ h[t].Spec.CRD.Spec.Validation # NIL
    /\ h[h[t].Spec.CRD.Spec.Validation].OpenAPIV3Schema # NIL

\* the target check made inside createSchema
createSchemaChecksTargets(h, t, tgt) ==
    IF validateTargets(h, t) # nil
    THEN [heap |-> h, ptr |-> NIL, err |-> validateTargets(h, t)]
    ELSE LET s == Alloc(h, ComposedSchema(SchemaProps(tgt, FALSE, ZeroSchema)))
         IN  [heap |-> s.heap, ptr |-> s.ptr, err |-> nil]

\* returns the heap after the call, the schema pointer and the error
createSchema(h, t, tgt) ==
    IF HasParameterSchema(h, t)
    THEN LET in == h[h[h[t].Spec.CRD.Spec.Validation].OpenAPIV3Schema]
             internalSchema == Alloc(h, ZeroSchema)
             c == ConvertToInternal(in)
         IN  IF ~c.ok
             THEN [heap |-> internalSchema.heap, ptr |-> NIL, err |-> ConversionError]
             ELSE LET h1 == Store(internalSchema.heap, internalSchema.ptr, c.val)
                      s == Alloc(h1, ComposedSchema(SchemaProps(tgt, TRUE, h1[internalSchema.ptr])))
                  IN  [heap |-> s.heap, ptr |-> s.ptr, err |-> nil]
    ELSE LET s == Alloc(h, ComposedSchema(SchemaProps(tgt, FALSE, ZeroSchema)))
         IN  [heap |-> s.heap, ptr |-> s.ptr, err |-> nil]

\* the plural taken from the kind without lower-casing it
BuiltCRDPluralNotLowered(kind, v) ==
    [ObjectMeta |-> [Name |-> <<>>],
     Spec |-> [Group |-> constraintGroup,
               Names |-> [Kind |-> kind,
                          ListKind |-> kind \o <<"L","i","s","t">>,
                          Plural |-> kind,
                          Singular |-> ToLower(kind),
                          Categories |-> <<"all", "constraint">>],
               Validation |-> v,
               Scope |-> "Cluster",
               Version |-> v1beta1Version,
               Versions |-> << [Name |-> v1beta1Version, Storage |-> TRUE, Served |-> TRUE],
                               [Name |-> v1alpha1Version, Storage |-> FALSE, Served |-> TRUE] >>,
               Conversion |-> Absent,
               PreserveUnknownFields |-> Absent]]

\* the legacy version declared as a storage version too
BuiltCRDTwoStorageVersions(kind, v) ==
    [ObjectMeta |-> [Name |-> <<>>],
     Spec |-> [Group |-> constraintGroup,
               Names |-> [Kind |-> kind,
                          ListKind |-> kind \o <<"L","i","s","t">>,
                          Plural |-> ToLower(kind),
                          Singular |-> ToLower(kind),
                          Categories |-> <<"all", "constraint">>],
               Validation |-> v,
               Scope |-> "Cluster",
               Version |-> v1beta1Version,
               Versions |-> << [Name |-> v1beta1Version, Storage |-> TRUE, Served |-> TRUE],
                               [Name |-> v1alpha1Version, Storage |-> TRUE, Served |-> TRUE] >>,
               Conversion |-> Absent,
               PreserveUnknownFields |-> Absent]]

\* the definition createCRD builds before the round trip; v is the address
\* of its CustomResourceValidation
BuiltCRD(kind, v) ==
    [ObjectMeta |-> [Name |-> <<>>],
     Spec |-> [Group |-> constraintGroup,
               Names |-> [Kind |-> kind,
                          ListKind |-> kind \o <<"L","i","s","t">>,
                          Plural |-> ToLower(kind),
                          Singular |-> ToLower(kind),
                          Categories |-> <<"all", "constraint">>],
               Validation |-> v,
               Scope |-> "Cluster",
               Version |-> v1beta1Version,
               Versions |-> << [Name |-> v1beta1Version, Storage |-> TRUE, Served |-> TRUE],
                               [Name |-> v1alpha1Version, Storage |-> FALSE, Served |-> TRUE] >>,
               Conversion |-> Absent,
               PreserveUnknownFields |-> Absent]]

\* scheme.Convert of a definition: a new schema document, a new validation
\* wrapper and the definition written to *out (at address out)
ConvertCRD(h, in, out, conv) ==
    LET c == conv
        s == Alloc(h, c.val)
        v == Alloc(s.heap, [OpenAPIV3Schema |-> s.ptr])
    IN  IF ~c.ok THEN [heap |-> h, ok |-> FALSE]
        ELSE [heap |-> Store(v.heap, out, [h[in] EXCEPT !.Spec.Validation = v.ptr]),
              ok |-> TRUE]

CRDSchema(h, d) == h[h[h[d].Spec.Validation].OpenAPIV3Schema]

\* lower-casing the template's kind in place before deriving the names
createCRDLowersTemplate(h, t, schemaPtr) ==
    LET h0 == Store(h, t, [h[t] EXCEPT !.Spec.CRD.Spec.Names.Kind =
                               ToLower(h[t].Spec.CRD.Spec.Names.Kind)])
        v == Alloc(h0, [OpenAPIV3Schema |-> schemaPtr])
        c == Alloc(v.heap, BuiltCRD(h[t].Spec.CRD.Spec.Names.Kind, v.ptr))
        named == [c.heap[c.ptr] EXCEPT !.ObjectMeta.Name =
                     c.heap[c.ptr].Spec.Names.Plural \o <<".">> \o constraintGroup]
        n == Alloc(c.heap, named)
    IN  [heap |-> n.heap, built |-> c.ptr, ptr |-> n.ptr, err |-> nil]

\* returns the heap after the call, the definition built before the round
\* trip, the definition returned and the error
createCRD(h, t, schemaPtr) ==
    LET v == Alloc(h, [OpenAPIV3Schema |-> schemaPtr])
        c == Alloc(v.heap, BuiltCRD(h[t].Spec.CRD.Spec.Names.Kind, v.ptr))
        v1b1 == Alloc(c.heap, Absent)
        x == ConvertCRD(v1b1.heap, c.ptr, v1b1.ptr, ConvertToExternal(CRDSchema(v1b1.heap, c.ptr)))
    IN  IF ~x.ok
        THEN [heap |-> v1b1.heap, built |-> c.ptr, ptr |-> NIL, err |-> RoundTripError]
        ELSE LET d == Store(x.heap, v1b1.ptr,
                            [x.heap[v1b1.ptr] EXCEPT !.Spec = SetDefaults(x.heap[v1b1.ptr].Spec)])
                 crd2 == Alloc(d, Absent)
                 y == ConvertCRD(crd2.heap, v1b1.ptr, crd2.ptr,
                                 ConvertToInternal(CRDSchema(crd2.heap, v1b1.ptr)))
             IN  IF ~y.ok
                 THEN [heap |-> crd2.heap, built |-> c.ptr, ptr |-> NIL, err |-> RoundTripBackError]
                 ELSE [heap |-> Store(y.heap, crd2.ptr,
                                      [y.heap[crd2.ptr] EXCEPT !.ObjectMeta.Name =
                                          y.heap[c.ptr].Spec.Names.Plural \o <<".">> \o constraintGroup]),
                       built |-> c.ptr, ptr |-> crd2.ptr, err |-> nil]

\* a definition read back as a value
DefinitionValue(h, d) ==
    IF d = NIL THEN Absent
    ELSE [ObjectMeta |-> h[d].ObjectMeta,
          Spec |-> [h[d].Spec EXCEPT !.Validation = [OpenAPIV3Schema |-> CRDSchema(h, d)]]]

\* apiextensionsvalidation.ValidateCustomResourceDefinition: the field
\* errors of a definition
DefinitionFieldErrors(d) ==
    (IF d.Spec.Names.Kind = <<>> THEN {"spec.names.kind: Required value"} ELSE {})
    \cup (IF d.Spec.Names.Plural = <<>> THEN {"spec.names.plural: Required value"} ELSE {})
    \cup (IF d.Spec.Names.Singular = <<>> THEN {"spec.names.singular: Required value"} ELSE {})
    \cup (IF d.ObjectMeta.Name # d.Spec.Names.Plural \o <<".">> \o d.Spec.Group
          THEN {"metadata.name: Invalid value"} ELSE {})
    \cup (IF Cardinality({i \in DOMAIN d.Spec.Versions : d.Spec.Versions[i].Storage}) # 1
          THEN {"spec.versions: Invalid value"} ELSE {})
    \cup (IF d.Spec.Versions # <<>> /\ d.Spec.Version # d.Spec.Versions[1].Name
          THEN {"spec.version: Invalid value"} ELSE {})
    \cup (IF d.Spec.Scope \notin {"Cluster", "Namespaced"}
          THEN {"spec.scope: Unsupported value"} ELSE {})

validateCRD(h, d) ==
    LET errors == DefinitionFieldErrors(DefinitionValue(h, d))
    IN  IF Cardinality(errors) > 0 THEN [msg |-> "aggregate", errs |-> errors] ELSE nil


(***************************************************************************)
(* Constraint instances (unstructured documents) and their validation.     *)
(*                                                                         *)
(* An instance object is [apiVersion |-> the apiVersion text split at "/", *)
(* kind |-> text, name |-> text, spec |-> JSON object].                    *)
(***************************************************************************)
JObject(fields) == [json |-> "object", fields |-> fields]

NameAlphabet == {"a", "B", "-", "."}
Names == SeqsUpTo(NameAlphabet, MaxNameLen)

otherGroup == <<"o","t","h","e","r",".","s","h">>
otherKind == <<"O","t","h","e","r">>

ApiVersions ==
    { <<constraintGroup, v1beta1Version>>,
      <<constraintGroup, v1alpha1Version>>,
      <<constraintGroup, <<"v","1">>>>,
      <<otherGroup, v1beta1Version>>,
      <<v1beta1Version>>,
      <<constraintGroup, v1beta1Version, <<"x">>>> }

SpecBodies ==
    { [n \in {"enforcementAction"} \cup ps |->
          IF n = "enforcementAction" THEN ea ELSE pv] :
        ea \in {JStr, JInt}, ps \in SUBSET {"parameters"}, pv \in {JStr, JInt} }

Instances(kinds, names) ==
    [apiVersion : ApiVersions, kind : kinds, name : names,
     spec : {JObject(b) : b \in SpecBodies}]

GetName(u) == u.name
GetKind(u) == u.kind

\* schema.FromAPIVersionAndKind / ParseGroupVersion
GroupVersionKind(u) ==
    IF Len(u.apiVersion) = 1
    THEN [Group |-> <<>>, Version |-> u.apiVersion[1], Kind |-> u.kind]
    ELSE IF Len(u.apiVersion) = 2
    THEN [Group |-> u.apiVersion[1], Version |-> u.apiVersion[2], Kind |-> u.kind]
    ELSE [Group |-> <<>>, Version |-> <<>>, Kind |-> u.kind]

RECURSIVE PatternsCompile(_)
PatternsCompile(sch) ==
    /\ sch.Pattern # "("
    /\ \A n \in DOMAIN sch.Properties : PatternsCompile(sch.Properties[n])

\* validation.NewSchemaValidator: fails on a schema it cannot convert
NewSchemaValidator(sch) ==
    IF PatternsCompile(sch) THEN [validator |-> sch, err |-> nil]
    ELSE [validator |-> sch, err |-> [msg |-> "NewSchemaValidator"]]

RECURSIVE SchemaErrors(_, _, _)
\* validation.ValidateCustomResource: the field errors of a document
SchemaErrors(sch, doc, path) ==
    (IF sch.Type # "" /\ sch.Type # doc.json THEN {path} ELSE {})
    \cup (IF doc.json = "object"
          THEN UNION {SchemaErrors(sch.Properties[n], doc.fields[n], Append(path, n)) :
                        n \in DOMAIN sch.Properties \cap DOMAIN doc.fields}
          ELSE {})

DNS1123SubdomainMaxLength == 253

LowerAlnum == Range(LowerCase) \cup Digits

\* apimachinery validation.IsDNS1123Subdomain: the list of violations
IsDNS1123Subdomain(value) ==
    (IF Len(value) > DNS1123SubdomainMaxLength
     THEN <<"must be no more than 253 characters">> ELSE <<>>)
    \o (IF /\ value # <<>>
           /\ \A i \in DOMAIN value : value[i] \in LowerAlnum \cup {"-", "."}
           /\ value[1] \in LowerAlnum
           /\ value[Len(value)] \in LowerAlnum
           /\ \A i \in DOMAIN value :
                 value[i] = "." => value[i-1] \in LowerAlnum /\ value[i+1] \in LowerAlnum
        THEN <<>>
        ELSE <<"a DNS-1123 subdomain must consist of lower case alphanumeric characters, '-' or '.', and must start and end with an alphanumeric character">>)

InstanceDocument(u) == JObject([n \in {"spec"} |-> u.spec])

\* the kind comparison made before the schema is consulted
validateCRKindFirst(h, u, d) ==
    IF GetKind(h[u]) # h[d].Spec.Names.Kind
    THEN [msg |-> "Wrong kind for constraint", name |-> GetName(h[u]),
          have |-> GetKind(h[u]), want |-> h[d].Spec.Names.Kind]
    ELSE IF NewSchemaValidator(CRDSchema(h, d)).err # nil
    THEN NewSchemaValidator(CRDSchema(h, d)).err
    ELSE IF SchemaErrors(CRDSchema(h, d), InstanceDocument(h[u]), <<>>) # {}
    THEN [msg |-> "ValidateCustomResource",
          errs |-> SchemaErrors(CRDSchema(h, d), InstanceDocument(h[u]), <<>>)]
    ELSE IF Len(IsDNS1123Subdomain(GetName(h[u]))) # 0
    THEN [msg |-> "Invalid Name", errs |-> IsDNS1123Subdomain(GetName(h[u]))]
    ELSE IF GroupVersionKind(h[u]).Group # constraintGroup
    THEN [msg |-> "Wrong group for constraint", name |-> GetName(h[u]),
          have |-> GroupVersionKind(h[u]).Group, want |-> constraintGroup]
    ELSE IF GroupVersionKind(h[u]).Version \notin DOMAIN supportedVersions
    THEN [msg |-> "Wrong version for constraint", name |-> GetName(h[u]),
          have |-> GroupVersionKind(h[u]).Version, supported |-> supportedVersions]
    ELSE nil

\* the kind comparison left out
validateCRNoKindCheck(h, u, d) ==
    IF NewSchemaValidator(CRDSchema(h, d)).err # nil
    THEN NewSchemaValidator(CRDSchema(h, d)).err
    ELSE IF SchemaErrors(CRDSchema(h, d), InstanceDocument(h[u]), <<>>) # {}
    THEN [msg |-> "ValidateCustomResource",
          errs |-> SchemaErrors(CRDSchema(h, d), InstanceDocument(h[u]), <<>>)]
    ELSE IF Len(IsDNS1123Subdomain(GetName(h[u]))) # 0
    THEN [msg |-> "Invalid Name", errs |-> IsDNS1123Subdomain(GetName(h[u]))]
    ELSE IF GroupVersionKind(h[u]).Group # constraintGroup
    THEN [msg |-> "Wrong group for constraint", name |-> GetName(h[u]),
          have |-> GroupVersionKind(h[u]).Group, want |-> constraintGroup]
    ELSE IF GroupVersionKind(h[u]).Version \notin DOMAIN supportedVersions
    THEN [msg |-> "Wrong version for constraint", name |-> GetName(h[u]),
          have |-> GroupVersionKind(h[u]).Version, supported |-> supportedVersions]
    ELSE nil

\* u: address of the instance, d: address of the definition
validateCR(h, u, d) ==
    LET v == NewSchemaValidator(CRDSchema(h, d))
        errs == SchemaErrors(v.validator, InstanceDocument(h[u]), <<>>)
        nameErrs == IsDNS1123Subdomain(GetName(h[u]))
    IN  IF v.err # nil THEN v.err
        ELSE IF errs # {} THEN [msg |-> "ValidateCustomResource", errs |-> errs]
        ELSE IF Len(nameErrs) # 0 THEN [msg |-> "Invalid Name", errs |-> nameErrs]
        ELSE IF GetKind(h[u]) # h[d].Spec.Names.Kind
        THEN [msg |-> "Wrong kind for constraint", name |-> GetName(h[u]),
              have |-> GetKind(h[u]), want |-> h[d].Spec.Names.Kind]
        ELSE IF GroupVersionKind(h[u]).Group # constraintGroup
        THEN [msg |-> "Wrong group for constraint", name |-> GetName(h[u]),
              have |-> GroupVersionKind(h[u]).Group, want |-> constraintGroup]
        ELSE IF ~(GroupVersionKind(h[u]).Version \in DOMAIN supportedVersions
                  /\ supportedVersions[GroupVersionKind(h[u]).Version])
        THEN [msg |-> "Wrong version for constraint", name |-> GetName(h[u]),
              have |-> GroupVersionKind(h[u]).Version, supported |-> supportedVersions]
        ELSE nil


(***************************************************************************)
(* Specification Spec: the registration pipeline on one template.  The     *)
(* caller validates the targets, composes the schema, synthesizes the      *)
(* definition, validates it, validates an instance against it, and may     *)
(* synthesize again from the same template.                                *)
(***************************************************************************)
Init ==
    /\ \E k \in Kinds, tg \in TargetMaps(TargetNames), va \in Validations :
          LET t == NewTemplate(k, tg, va)
          IN  heap = t.heap /\ templ = t.ptr
    /\ target \in MatchSchemas
    /\ cpy = NIL
    /\ op = "init"
    /\ fresh = 0
    /\ terr = NotCalled
    /\ schema = [ptr |-> NIL, err |-> NotCalled]
    /\ crd = [built |-> NIL, ptr |-> NIL, err |-> NotCalled]
    /\ runs = 0
    /\ verr = NotCalled
    /\ cr = NIL
    /\ crerr = NotCalled
    /\ calls = [c \in Callers |-> IdleCall]

ValidateTargets ==
    /\ op = "init"
    /\ terr' = validateTargets(heap, templ)
    /\ op' = "validateTargets"
    /\ UNCHANGED <<heap, templ, cpy, fresh, target, schema, crd, runs, verr, cr, crerr, calls>>

CreateSchema ==
    /\ op \in {"validateTargets", "createCRD", "validateCRD"}
    /\ runs < MaxRuns
    /\ LET r == createSchema(heap, templ, target)
       IN  /\ heap' = r.heap
           /\ schema' = [ptr |-> r.ptr, err |-> r.err]
    /\ runs' = runs + 1
    /\ op' = "createSchema"
    /\ UNCHANGED <<templ, cpy, fresh, target, terr, crd, verr, cr, crerr, calls>>

CreateCRD ==
    /\ op = "createSchema"
    /\ schema.err = nil
    /\ LET r == createCRD(heap, templ, schema.ptr)
       IN  /\ heap' = r.heap
           /\ crd' = [built |-> r.built, ptr |-> r.ptr, err |-> r.err]
    /\ op' = "createCRD"
    /\ UNCHANGED <<templ, cpy, fresh, target, terr, schema, runs, verr, cr, crerr, calls>>

ValidateCRD ==
    /\ op = "createCRD"
    /\ crd.err = nil
    /\ verr' = validateCRD(heap, crd.ptr)
    /\ op' = "validateCRD"
    /\ UNCHANGED <<heap, templ, cpy, fresh, target, terr, schema, crd, runs, cr, crerr, calls>>

\* the caller builds an instance and has it validated against definition d
ValidateInstance(us, d) ==
    \E u \in us :
       LET a == Alloc(heap, u)
       IN  /\ heap' = a.heap
           /\ cr' = a.ptr
           /\ crerr' = validateCR(a.heap, a.ptr, d)
           /\ op' = "validateCR"

SampleNames == {<<"a">>, <<"B">>}

ValidateCRSample ==
    /\ op = "validateCRD"
    /\ cr = NIL
    /\ ValidateInstance(Instances({heap[crd.ptr].Spec.Names.Kind, otherKind}, SampleNames), crd.ptr)
    /\ UNCHANGED <<templ, cpy, fresh, target, terr, schema, crd, runs, verr, calls>>

Next ==
    \/ ValidateTargets
    \/ CreateSchema
    \/ CreateCRD
    \/ ValidateCRD
    \/ ValidateCRSample

Spec == Init /\ [][Next]_vars

(***************************************************************************)
(* Specification SpecCR: instances are validated against a definition      *)
(* synthesized from a single-target template.                              *)
(***************************************************************************)
InitCR ==
    /\ \E k \in Kinds, tg \in TargetMaps({"t1"}) \ {NoTargets}, va \in Validations,
          m \in MatchSchemas :
          LET t == NewTemplate(k, tg, va)
              s == createSchema(t.heap, t.ptr, m)
              c == createCRD(s.heap, t.ptr, s.ptr)
          IN  /\ validateTargets(t.heap, t.ptr) = nil
              /\ s.err = nil
              /\ c.err = nil
              /\ heap = c.heap
              /\ templ = t.ptr
              /\ target = m
              /\ schema = [ptr |-> s.ptr, err |-> s.err]
              /\ crd = [built |-> c.built, ptr |-> c.ptr, err |-> c.err]
              /\ verr = validateCRD(c.heap, c.ptr)
    /\ terr = nil
    /\ cpy = NIL
    /\ op = "validateCRD"
    /\ fresh = 0
    /\ runs = 1
    /\ cr = NIL
    /\ crerr = NotCalled
    /\ calls = [c \in Callers |-> IdleCall]

ValidateCR ==
    /\ op = "validateCRD"
    /\ cr = NIL
    /\ ValidateInstance(Instances({heap[crd.ptr].Spec.Names.Kind, otherKind}, Names), crd.ptr)
    /\ UNCHANGED <<templ, cpy, fresh, target, terr, schema, crd, runs, verr, calls>>

NextCR == ValidateCR

SpecCR == InitCR /\ [][NextCR]_vars


(***************************************************************************)
(* Claims about validateCR, checked under SpecCR.                          *)
(***************************************************************************)
TheInstance == heap[cr]
TheDefinition == heap[crd.ptr]
TheSchema == CRDSchema(heap, crd.ptr)

\* the numbered checks of validateCR that the validated instance fails
FailingSteps ==
    (IF ~PatternsCompile(TheSchema) THEN {1} ELSE {})
    \cup (IF SchemaErrors(TheSchema, InstanceDocument(TheInstance), <<>>) # {} THEN {2} ELSE {})
    \cup (IF IsDNS1123Subdomain(TheInstance.name) # <<>> THEN {3} ELSE {})
    \cup (IF TheInstance.kind # TheDefinition.Spec.Names.Kind THEN {4} ELSE {})
    \cup (IF GroupVersionKind(TheInstance).Group # constraintGroup THEN {5} ELSE {})
    \cup (IF GroupVersionKind(TheInstance).Version \notin {v1alpha1Version, v1beta1Version}
          THEN {6} ELSE {})

\* the check an error value comes from, 0 for nil
StepOf(e) ==
    IF e = nil THEN 0
    ELSE IF e.msg = "NewSchemaValidator" THEN 1
    ELSE IF e.msg = "ValidateCustomResource" THEN 2
    ELSE IF e.msg = "Invalid Name" THEN 3
    ELSE IF e.msg = "Wrong kind for constraint" THEN 4
    ELSE IF e.msg = "Wrong group for constraint" THEN 5
    ELSE IF e.msg = "Wrong version for constraint" THEN 6
    ELSE 7

\* C1: validateCR reports the error of the lowest-numbered failing check
\* (validator construction, schema, name, kind, group, version) and returns
\* nil only when all six pass.
C1_FirstFailingStepReported ==
    op = "validateCR" =>
        IF FailingSteps = {}
        THEN crerr = nil
        ELSE StepOf(crerr) = CHOOSE n \in FailingSteps : \A m \in FailingSteps : n <= m

\* a wrong-kind instance that also violates the schema got the schema error
C1_Witness ==
    /\ op = "validateCR"
    /\ {2, 4} \subseteq FailingSteps
    /\ 1 \notin FailingSteps
    /\ crerr.msg = "ValidateCustomResource"

WrongKindError ==
    [msg |-> "Wrong kind for constraint", name |-> TheInstance.name,
     have |-> TheInstance.kind, want |-> TheDefinition.Spec.Names.Kind]

\* C2 as stated: every instance whose kind differs from the definition's
\* gets the wrong-kind error naming both kinds, whatever its body.
C2_Original ==
    (op = "validateCR" /\ TheInstance.kind # TheDefinition.Spec.Names.Kind)
        => crerr = WrongKindError

\* C2 amended: an instance whose kind differs from the definition's, and
\* which passes validator construction, schema validation and the name
\* check, gets the wrong-kind error naming the actual and the expected kind,
\* whatever its group and version.
C2_WrongKindAfterSchemaAndName ==
    (/\ op = "validateCR"
     /\ TheInstance.kind # TheDefinition.Spec.Names.Kind
     /\ FailingSteps \cap {1, 2, 3} = {})
        => crerr = WrongKindError

\* kind Other, valid body and name, wrong group as well: wrong-kind error
C2_Witness ==
    /\ op = "validateCR"
    /\ TheInstance.kind = otherKind
    /\ TheDefinition.Spec.Names.Kind # otherKind
    /\ FailingSteps \cap {1, 2, 3} = {}
    /\ 5 \in FailingSteps
    /\ crerr = WrongKindError

(***************************************************************************)
(* Claims about the synthesis pipeline, checked under Spec.                *)
(***************************************************************************)
CardinalityErrors == {MultiTargetError, TargetsNotSpecifiedError, NoTargetsError}

\* whether the template's parameter schema (if any) converts
ParametersConvert ==
    HasParameterSchema(heap, templ) =>
        Unmarshal(TemplateValue(heap, templ).Validation.OpenAPIV3Schema.Default).ok

\* C4 as stated: createSchema fails with a target-cardinality error when the
\* template has 0 or 2+ targets and succeeds with exactly 1 (if the
\* parameter schema converts).
C4_Original ==
    op = "createSchema" =>
        /\ TargetCount(heap, templ) # 1 => schema.err \in CardinalityErrors
        /\ (TargetCount(heap, templ) = 1 /\ ParametersConvert) => schema.err = nil

\* C4 amended: the target-cardinality error comes from validateTargets,
\* which fails for 0 or 2+ targets and succeeds for exactly 1; createSchema
\* itself does not look at the targets: it succeeds exactly when the
\* parameter schema converts, for any number of targets.
C4_CardinalityCheckedByValidateTargets ==
    op = "createSchema" =>
        /\ (terr \in CardinalityErrors) = (TargetCount(heap, templ) # 1)
        /\ (terr = nil) = (TargetCount(heap, templ) = 1)
        /\ schema.err \notin CardinalityErrors
        /\ (schema.err = nil) = ParametersConvert
        /\ (schema.ptr # NIL) = (schema.err = nil)

\* createSchema succeeded on a template validateTargets rejected
C4_Witness ==
    /\ op = "createSchema"
    /\ TargetCount(heap, templ) = 2
    /\ terr = MultiTargetError
    /\ schema.err = nil
    /\ schema.ptr # NIL

\* C5: validateTargets returns an error iff the template does not have
\* exactly one target; a nil map, an empty map and a map of two or more
\* each get their own message; the template is not modified.
C5_ValidateTargets ==
    [][ op' = "validateTargets" =>
          /\ (terr' = nil) = (TargetCount(heap, templ) = 1)
          /\ TemplateValue(heap, templ).Targets = NoTargets => terr' = TargetsNotSpecifiedError
          /\ (TemplateValue(heap, templ).Targets # NoTargets /\ TargetCount(heap, templ) = 0)
                => terr' = NoTargetsError
          /\ TargetCount(heap, templ) >= 2 => terr' = MultiTargetError
          /\ Cardinality(CardinalityErrors) = 3
          /\ nil \notin CardinalityErrors
          /\ TemplateValue(heap', templ') = TemplateValue(heap, templ)
          /\ heap' = heap
      ]_vars

\* each of the four outcomes has been returned: here the empty non-nil map
C5_Witness ==
    /\ op = "validateTargets"
    /\ TemplateValue(heap, templ).Targets # NoTargets
    /\ TargetCount(heap, templ) = 0
    /\ terr = NoTargetsError

TemplateKind == heap[templ].Spec.CRD.Spec.Names.Kind

\* C6: a definition returned by createCRD has the template's kind, plural
\* and singular its lower-cased kind, list kind the kind followed by "List",
\* and name <plural>.<constraint group>.
C6_DerivedNames ==
    (crd.err = nil /\ crd.ptr # NIL) =>
        /\ heap[crd.ptr].Spec.Names.Kind = TemplateKind
        /\ heap[crd.ptr].Spec.Names.Plural = ToLower(TemplateKind)
        /\ heap[crd.ptr].Spec.Names.Singular = ToLower(TemplateKind)
        /\ heap[crd.ptr].Spec.Names.ListKind = TemplateKind \o <<"L","i","s","t">>
        /\ heap[crd.ptr].ObjectMeta.Name =
              heap[crd.ptr].Spec.Names.Plural \o <<".">> \o constraintGroup
        /\ heap[crd.ptr].Spec.Group = constraintGroup

\* a definition was synthesized from a kind with upper-case letters
C6_Witness ==
    /\ crd.err = nil
    /\ crd.ptr # NIL
    /\ ToLower(TemplateKind) # TemplateKind
    /\ Len(TemplateKind) = MaxKindLen
    /\ heap[crd.ptr].Spec.Names.Plural # heap[crd.ptr].Spec.Names.Kind

\* C7: a definition returned by createCRD declares exactly two versions:
\* v1beta1 served and stored, v1alpha1 served and not stored; exactly one
\* is the storage version and the declared names are the supported versions.
C7_TwoVersions ==
    (crd.err = nil /\ crd.ptr # NIL) =>
        LET vs == heap[crd.ptr].Spec.Versions
        IN  /\ Len(vs) = 2
            /\ vs[1] = [Name |-> v1beta1Version, Storage |-> TRUE, Served |-> TRUE]
            /\ vs[2] = [Name |-> v1alpha1Version, Storage |-> FALSE, Served |-> TRUE]
            /\ Cardinality({i \in DOMAIN vs : vs[i].Storage}) = 1
            /\ {vs[i].Name : i \in DOMAIN vs} =
                  {v \in DOMAIN supportedVersions : supportedVersions[v]}

\* a definition came back from the conversion and defaulting round trip
C7_Witness ==
    /\ crd.err = nil
    /\ crd.ptr # NIL
    /\ heap[crd.ptr].Spec.Conversion # Absent
    /\ Len(heap[crd.ptr].Spec.Versions) = 2

\* C8: the composed schema has a spec property whose properties are match
\* (the target's match schema), enforcementAction (a string) and, exactly
\* when the template declares a parameter schema, parameters.
C8_ComposedSchema ==
    (schema.err = nil /\ schema.ptr # NIL) =>
        LET props == heap[schema.ptr].Properties["spec"].Properties
        IN  /\ DOMAIN heap[schema.ptr].Properties = {"spec"}
            /\ {"match", "enforcementAction"} \subseteq DOMAIN props
            /\ props["match"] = target
            /\ props["enforcementAction"].Type = "string"
            /\ ("parameters" \in DOMAIN props) = HasParameterSchema(heap, templ)
            /\ ~HasParameterSchema(heap, templ) => DOMAIN props = {"match", "enforcementAction"}
            /\ DOMAIN props \subseteq {"match", "enforcementAction", "parameters"}

\* a schema composed for a template whose Validation has no inner schema
C8_Witness ==
    /\ schema.err = nil
    /\ schema.ptr # NIL
    /\ heap[templ].Spec.CRD.Spec.Validation # NIL
    /\ ~HasParameterSchema(heap, templ)
    /\ DOMAIN heap[schema.ptr].Properties["spec"].Properties = {"match", "enforcementAction"}

SchemaResult(h, r) == [err |-> r.err, val |-> IF r.ptr = NIL THEN Absent ELSE h[r.ptr]]
CRDResult(h, r) == [err |-> r.err, val |-> DefinitionValue(h, r.ptr)]

\* C9: synthesizing again from the unchanged template and match schema
\* gives the same composed schema and the same definition (or the same
\* error) as the run before.
C9_Idempotent ==
    [][ /\ (op' = "createSchema" /\ schema.err # NotCalled)
            => SchemaResult(heap', schema') = SchemaResult(heap, schema)
        /\ (op' = "createCRD" /\ crd.err # NotCalled)
            => CRDResult(heap', crd') = CRDResult(heap, crd)
      ]_vars

\* a second definition has been synthesized
C9_Witness ==
    /\ runs = 2
    /\ op = "createCRD"
    /\ crd.ptr # NIL
    /\ HasParameterSchema(heap, templ)
    /\ ToLower(TemplateKind) # TemplateKind

(***************************************************************************)
(* Specification SpecConc: concurrent calls on shared objects.             *)
(*                                                                         *)
(* A template has been registered: its composed schema and, when the       *)
(* synthesis succeeded, its definition exist, and so does an instance      *)
(* awaiting validation.  Two callers then each make one call of            *)
(* validateTargets, createSchema, createCRD, validateCRD or validateCR on  *)
(* these shared objects.  A call is not atomic: it advances one statement  *)
(* of crd_helpers.go at a time, each statement reading the heap as the     *)
(* other caller left it and writing through the call's own pointers.       *)
(***************************************************************************)
ConcKinds == {k \in Kinds : Len(k) = 1}

ConcTargets == TargetMaps(TargetNames)

ConcInstances(kind) ==
    [apiVersion : {<<constraintGroup, v1beta1Version>>},
     kind : {kind, otherKind},
     name : {<<"a">>},
     spec : {JObject([n \in {"enforcementAction"} |-> v]) : v \in {JStr, JInt}}]

InitConc ==
    /\ \E k \in ConcKinds, tg \in ConcTargets, va \in Validations, m \in MatchSchemas :
       \E u \in ConcInstances(k) :
          LET t == NewTemplate(k, tg, va)
              s == createSchema(t.heap, t.ptr, m)
              c == IF s.err = nil
                   THEN createCRD(s.heap, t.ptr, s.ptr)
                   ELSE [heap |-> s.heap, built |-> NIL, ptr |-> NIL, err |-> NotCalled]
              i == Alloc(c.heap, u)
          IN  /\ heap = i.heap
              /\ templ = t.ptr
              /\ target = m
              /\ terr = validateTargets(t.heap, t.ptr)
              /\ schema = [ptr |-> s.ptr, err |-> s.err]
              /\ crd = [built |-> c.built, ptr |-> c.ptr, err |-> c.err]
              /\ cr = i.ptr
    /\ verr = NotCalled
    /\ crerr = NotCalled
    /\ cpy = NIL
    /\ op = "concurrent"
    /\ fresh = 0
    /\ runs = 1
    /\ calls = [c \in Callers |-> IdleCall]

sharedVars == <<templ, cpy, op, fresh, target, terr, schema, crd, runs, verr, cr, crerr>>

\* caller c moves to position pc with locals l (a record of the fields
\* changed); the objects the statement allocated become the call's own
Goto(c, pc, l) ==
    calls' = [calls EXCEPT ![c] = [f \in DOMAIN IdleCall |->
                 IF f = "pc" THEN pc
                 ELSE IF f = "own" THEN calls[c].own \cup (Len(heap) + 1 .. Len(heap'))
                 ELSE IF f \in DOMAIN l THEN l[f] ELSE calls[c][f]]]

\* caller c returns (ptr, err)
Return(c, ptr, err) == Goto(c, "done", [res |-> [ptr |-> ptr, err |-> err]])

At(c, o, pc) == calls[c].op = o /\ calls[c].pc = pc

(* validateTargets, lines 27-36 *)

\* if len(templ.Spec.Targets) > 1
VTMulti ==
    \E c \in Callers :
       /\ calls[c].pc = "idle"
       /\ heap' = heap
       /\ IF TargetCount(heap, templ) > 1
          THEN Goto(c, "done", [op |-> "validateTargets",
                                res |-> [ptr |-> NIL, err |-> MultiTargetError]])
          ELSE Goto(c, "vt2", [op |-> "validateTargets"])
       /\ UNCHANGED sharedVars

\* else if templ.Spec.Targets == nil
VTNil ==
    \E c \in Callers :
       /\ At(c, "validateTargets", "vt2")
       /\ heap' = heap
       /\ IF heap[templ].Spec.Targets = NIL
          THEN Return(c, NIL, TargetsNotSpecifiedError)
          ELSE Goto(c, "vt3", [op |-> "validateTargets"])
       /\ UNCHANGED sharedVars

\* else if len(templ.Spec.Targets) == 0 ... return nil
VTEmpty ==
    \E c \in Callers :
       /\ At(c, "validateTargets", "vt3")
       /\ heap' = heap
       /\ IF TargetCount(heap, templ) = 0
          THEN Return(c, NIL, NoTargetsError)
          ELSE Return(c, NIL, nil)
       /\ UNCHANGED sharedVars

(* createSchema, lines 40-60 *)

\* props := {"match": target.MatchSchema(), "enforcementAction": ...}
CSProps ==
    \E c \in Callers :
       /\ calls[c].pc = "idle"
       /\ heap' = heap
       /\ Goto(c, "cs2", [op |-> "createSchema", val |-> [match |-> target]])
       /\ UNCHANGED sharedVars

\* if Validation != nil && Validation.OpenAPIV3Schema != nil
CSCheck ==
    \E c \in Callers :
       /\ At(c, "createSchema", "cs2")
       /\ heap' = heap
       /\ IF HasParameterSchema(heap, templ)
          THEN Goto(c, "cs3", [p1 |-> heap[heap[templ].Spec.CRD.Spec.Validation].OpenAPIV3Schema])
          ELSE Goto(c, "cs4", [p1 |-> NIL])
       /\ UNCHANGED sharedVars

\* internalSchema := &JSONSchemaProps{}; Convert(in, internalSchema): the
\* heap after the statement, the new object and whether it succeeded
ConvertParameters(h, in) ==
    LET internalSchema == Alloc(h, ZeroSchema)
        c == ConvertToInternal(h[in])
    IN  IF c.ok
        THEN [heap |-> Store(internalSchema.heap, internalSchema.ptr, c.val),
              ptr |-> internalSchema.ptr, ok |-> TRUE]
        ELSE [heap |-> internalSchema.heap, ptr |-> internalSchema.ptr, ok |-> FALSE]

CSConvert ==
    \E c \in Callers :
       /\ At(c, "createSchema", "cs3")
       /\ LET r == ConvertParameters(heap, calls[c].p1)
          IN  /\ heap' = r.heap
              /\ IF r.ok
                 THEN Goto(c, "cs4", [p2 |-> r.ptr])
                 ELSE Goto(c, "done", [p2 |-> r.ptr,
                                       res |-> [ptr |-> NIL, err |-> ConversionError]])
       /\ UNCHANGED sharedVars

\* props["parameters"] = *internalSchema; schema := &JSONSchemaProps{...}
CSReturn ==
    \E c \in Callers :
       /\ At(c, "createSchema", "cs4")
       /\ LET s == Alloc(heap, ComposedSchema(
                      IF calls[c].p2 # NIL
                      THEN SchemaProps(calls[c].val.match, TRUE, heap[calls[c].p2])
                      ELSE SchemaProps(calls[c].val.match, FALSE, ZeroSchema)))
          IN  /\ heap' = s.heap
              /\ Goto(c, "done", [p3 |-> s.ptr, res |-> [ptr |-> s.ptr, err |-> nil]])
       /\ UNCHANGED sharedVars

(* createCRD, lines 77-124, on the shared composed schema *)

\* the kind normalised in the template itself before the literal is built
BuildCRDLoweringTemplate(h, t, schemaPtr) ==
    LET h0 == Store(h, t, [h[t] EXCEPT !.Spec.CRD.Spec.Names.Kind =
                               ToLower(h[t].Spec.CRD.Spec.Names.Kind)])
        v == Alloc(h0, [OpenAPIV3Schema |-> schemaPtr])
    IN  Alloc(v.heap, BuiltCRD(h0[t].Spec.CRD.Spec.Names.Kind, v.ptr))

\* crd := &CustomResourceDefinition{...}
BuildCRD(h, t, schemaPtr) ==
    LET v == Alloc(h, [OpenAPIV3Schema |-> schemaPtr])
    IN  Alloc(v.heap, BuiltCRD(h[t].Spec.CRD.Spec.Names.Kind, v.ptr))

CCBuild ==
    \E c \in Callers :
       /\ calls[c].pc = "idle"
       /\ schema.ptr # NIL
       /\ LET b == BuildCRD(heap, templ, schema.ptr)
          IN  /\ heap' = b.heap
              /\ Goto(c, "cc2", [op |-> "createCRD", p1 |-> b.ptr])
       /\ UNCHANGED sharedVars

\* v1b1 := &v1beta1.CustomResourceDefinition{}; Convert(crd, v1b1)
CCConvert ==
    \E c \in Callers :
       /\ At(c, "createCRD", "cc2")
       /\ LET v1b1 == Alloc(heap, Absent)
              x == ConvertCRD(v1b1.heap, calls[c].p1, v1b1.ptr,
                              ConvertToExternal(CRDSchema(v1b1.heap, calls[c].p1)))
          IN  IF x.ok
              THEN heap' = x.heap /\ Goto(c, "cc3", [p2 |-> v1b1.ptr])
              ELSE /\ heap' = v1b1.heap
                   /\ Goto(c, "done", [p2 |-> v1b1.ptr,
                                       res |-> [ptr |-> NIL, err |-> RoundTripError]])
       /\ UNCHANGED sharedVars

\* h.scheme.Default(v1b1)
CCDefault ==
    \E c \in Callers :
       /\ At(c, "createCRD", "cc3")
       /\ heap' = Store(heap, calls[c].p2,
                        [heap[calls[c].p2] EXCEPT !.Spec = SetDefaults(heap[calls[c].p2].Spec)])
       /\ Goto(c, "cc4", [op |-> "createCRD"])
       /\ UNCHANGED sharedVars

\* crd2 := &CustomResourceDefinition{}; Convert(v1b1, crd2)
CCConvertBack ==
    \E c \in Callers :
       /\ At(c, "createCRD", "cc4")
       /\ LET crd2 == Alloc(heap, Absent)
              y == ConvertCRD(crd2.heap, calls[c].p2, crd2.ptr,
                              ConvertToInternal(CRDSchema(crd2.heap, calls[c].p2)))
          IN  IF y.ok
              THEN heap' = y.heap /\ Goto(c, "cc5", [p3 |-> crd2.ptr])
              ELSE /\ heap' = crd2.heap
                   /\ Goto(c, "done", [p3 |-> crd2.ptr,
                                       res |-> [ptr |-> NIL, err |-> RoundTripBackError]])
       /\ UNCHANGED sharedVars

\* crd2.ObjectMeta.Name = fmt.Sprintf("%s.%s", crd.Spec.Names.Plural, constraintGroup)
CCName ==
    \E c \in Callers :
       /\ At(c, "createCRD", "cc5")
       /\ heap' = Store(heap, calls[c].p3,
                        [heap[calls[c].p3] EXCEPT !.ObjectMeta.Name =
                            heap[calls[c].p1].Spec.Names.Plural \o <<".">> \o constraintGroup])
       /\ Return(c, calls[c].p3, nil)
       /\ UNCHANGED sharedVars

(* validateCRD, lines 127-133, on the shared definition *)

\* errors := ValidateCustomResourceDefinition(crd, ...)
VDValidate ==
    \E c \in Callers :
       /\ calls[c].pc = "idle"
       /\ crd.ptr # NIL
       /\ heap' = heap
       /\ Goto(c, "vd2", [op |-> "validateCRD",
                          val |-> [errors |-> DefinitionFieldErrors(DefinitionValue(heap, crd.ptr))]])
       /\ UNCHANGED sharedVars

\* if len(errors) > 0 { return errors.ToAggregate() }; return nil
VDReturn ==
    \E c \in Callers :
       /\ At(c, "validateCRD", "vd2")
       /\ heap' = heap
       /\ IF Cardinality(calls[c].val.errors) > 0
          THEN Return(c, NIL, [msg |-> "aggregate", errs |-> calls[c].val.errors])
          ELSE Return(c, NIL, nil)
       /\ UNCHANGED sharedVars

(* validateCR, lines 136-157, on the shared instance and definition *)

\* validator, _, err := NewSchemaValidator(crd.Spec.Validation): the
\* validator is a new object built from the definition's schema
VRValidator ==
    \E c \in Callers :
       /\ calls[c].pc = "idle"
       /\ crd.ptr # NIL
       /\ LET v == NewSchemaValidator(CRDSchema(heap, crd.ptr))
              a == Alloc(heap, v.validator)
          IN  IF v.err # nil
              THEN /\ heap' = heap
                   /\ Goto(c, "done", [op |-> "validateCR",
                                       res |-> [ptr |-> NIL, err |-> v.err]])
              ELSE /\ heap' = a.heap
                   /\ Goto(c, "vr2", [op |-> "validateCR", p1 |-> a.ptr])
       /\ UNCHANGED sharedVars

\* ValidateCustomResource(field.NewPath(""), cr, validator)
VRSchema ==
    \E c \in Callers :
       /\ At(c, "validateCR", "vr2")
       /\ heap' = heap
       /\ LET errs == SchemaErrors(heap[calls[c].p1], InstanceDocument(heap[cr]), <<>>)
          IN  IF errs # {}
              THEN Return(c, NIL, [msg |-> "ValidateCustomResource", errs |-> errs])
              ELSE Goto(c, "vr3", [op |-> "validateCR"])
       /\ UNCHANGED sharedVars

\* IsDNS1123Subdomain(cr.GetName())
VRName ==
    \E c \in Callers :
       /\ At(c, "validateCR", "vr3")
       /\ heap' = heap
       /\ LET errs == IsDNS1123Subdomain(GetName(heap[cr]))
          IN  IF Len(errs) # 0
              THEN Return(c, NIL, [msg |-> "Invalid Name", errs |-> errs])
              ELSE Goto(c, "vr4", [op |-> "validateCR"])
       /\ UNCHANGED sharedVars

\* cr.GetKind() != crd.Spec.Names.Kind
VRKind ==
    \E c \in Callers :
       /\ At(c, "validateCR", "vr4")
       /\ heap' = heap
       /\ IF GetKind(heap[cr]) # heap[crd.ptr].Spec.Names.Kind
          THEN Return(c, NIL, [msg |-> "Wrong kind for constraint", name |-> GetName(heap[cr]),
                               have |-> GetKind(heap[cr]),
                               want |-> heap[crd.ptr].Spec.Names.Kind])
          ELSE Goto(c, "vr5", [op |-> "validateCR"])
       /\ UNCHANGED sharedVars

\* cr.GroupVersionKind().Group != constraintGroup
VRGroup ==
    \E c \in Callers :
       /\ At(c, "validateCR", "vr5")
       /\ heap' = heap
       /\ IF GroupVersionKind(heap[cr]).Group # constraintGroup
          THEN Return(c, NIL, [msg |-> "Wrong group for constraint", name |-> GetName(heap[cr]),
                               have |-> GroupVersionKind(heap[cr]).Group,
                               want |-> constraintGroup])
          ELSE Goto(c, "vr6", [op |-> "validateCR"])
       /\ UNCHANGED sharedVars

\* !supportedVersions[cr.GroupVersionKind().Version] ... return nil
VRVersion ==
    \E c \in Callers :
       /\ At(c, "validateCR", "vr6")
       /\ heap' = heap
       /\ IF ~(GroupVersionKind(heap[cr]).Version \in DOMAIN supportedVersions
               /\ supportedVersions[GroupVersionKind(heap[cr]).Version])
          THEN Return(c, NIL, [msg |-> "Wrong version for constraint", name |-> GetName(heap[cr]),
                               have |-> GroupVersionKind(heap[cr]).Version,
                               supported |-> supportedVersions])
          ELSE Return(c, NIL, nil)
       /\ UNCHANGED sharedVars

NextConc ==
    \/ VTMulti
    \/ VTNil
    \/ VTEmpty
    \/ CSProps
    \/ CSCheck
    \/ CSConvert
    \/ CSReturn
    \/ CCBuild
    \/ CCConvert
    \/ CCDefault
    \/ CCConvertBack
    \/ CCName
    \/ VDValidate
    \/ VDReturn
    \/ VRValidator
    \/ VRSchema
    \/ VRName
    \/ VRKind
    \/ VRGroup
    \/ VRVersion

SpecConc == InitConc /\ [][NextConc]_vars


\* every object that existed before the calls began: the template, the
\* composed schema, the definition and, allocated last, the instance
Shared == 1 .. cr

\* the objects whose contents a step changed
Written == {a \in 1 .. Len(heap) : heap'[a] # heap[a]}

\* what a call running alone on the current heap would return
AloneSchema == LET s == createSchema(heap, templ, target) IN SchemaResult(s.heap, s)
AloneCRD == LET r == createCRD(heap, templ, schema.ptr) IN CRDResult(r.heap, r)

====
